---- MODULE Spec2Model ----
(***************************************************************************)
(* Model of Torch::ipVcycle (src/src/ip/src/ipVcycle.cc): the entry checks *)
(* checkInput / allocateOutput, processInput, the recursive multigrid      *)
(* V-cycle mgv and the post-processing of the illumination field.          *)
(*                                                                         *)
(* Pixel values are integers (fixed-point units); a field is a record      *)
(* [h, w, d] with d a function on (0..h-1) \X (0..w-1).  The routines of    *)
(* ip/multigrid.h, the LAPACK solver and the ipCore framework are not part *)
(* of the translated file; they are modelled from the specification.       *)
(***************************************************************************)
EXTENDS Integers, Sequences, FiniteSets, TLC

\* ------------------------------------------------------------------ bounds
MaxHeight == 4
MaxWidth == 6
MaxGrids == 2
MaxPattern == 1
MaxSolve == 1
MaxSmooth == 1
MaxDepth == 3

\* ------------------------------------------------- options (constructor)
DefaultLambda == 5
DefaultNGrids == 1
DefaultType == 1
\* distribution width handed to cutExtremum
CutWidth == 4
\* upper end of the display range of ipRescaleGray
DisplayMax == 255

VARIABLES
  m_output,   \* instance: dimensions of m_output[0], or Null when m_output == 0
  n_grids_,   \* instance field n_grids_
  height_,    \* instance field height_
  width_,     \* instance field width_
  pc,         \* position of the process() call in progress ("idle" when none)
  input,      \* the input tensor of the call in progress
  opts,       \* the options read by processInput
  stack,      \* the active mgv invocations, innermost last
  ret,        \* the field returned by the mgv invocation that returned last
  loc,        \* locals of processInput
  counts,     \* operations performed by the call in progress
  levels,     \* levels of the mgv invocations entered by the call in progress
  live,       \* heap objects allocated and not yet deleted
  released,   \* number of deletes per heap object of the call in progress
  memfault,   \* a delete of, or an access to, an object that is not live
  status,     \* outcome of the last process() call
  errors,     \* number of error() reports of the call in progress
  other,      \* a second, interleaved invocation on the same instance
  direct      \* a direct call of one routine on given data, outside process()

vars == <<m_output, n_grids_, height_, width_, pc, input, opts, stack, ret, loc,
          counts, levels, live, released, memfault, status, errors, other, direct>>

Null == <<>>

\* --------------------------------------------------------------- fields
Pix(h, w) == (0 .. h - 1) \X (0 .. w - 1)

\* new DoubleTensor(h, w, 1) with the pixel values d
Field(h, w, d) == [h |-> h, w |-> w, d |-> d]

\* DoubleTensor::fill(v) on a fresh h x w tensor
Filled(h, w, v) == Field(h, w, [pq \in Pix(h, w) |->
            LET y == pq[1]
                x == pq[2]
            IN v])

At(f, y, x) == f.d[<<y, x>>]

InRange(f, y, x) == y >= 0 /\ y < f.h /\ x >= 0 /\ x < f.w

SameDims(f, g) == f.h = g.h /\ f.w = g.w

\* first/last row or first/last column of an h x w grid
OnBorder(h, w, y, x) == y = 0 \/ y = h - 1 \/ x = 0 \/ x = w - 1

Min(a, b) == IF a < b THEN a ELSE b

\* the pixel values of the input image with pattern p
ImageValue(p, y, x) == 1 + ((p * y + x) % (p + 1))

\* a tensor that is allocated but not written yet (its content is indeterminate)
Alloc(h, w) == [h |-> h, w |-> w, d |-> <<>>]

NoField == Alloc(0, 0)

\* ------------------------------------------ ip/multigrid.h and LAPACK
\* gaussSeidel(x, b, rho, lambda, type): one relaxation of x against b.  Border
\* pixels of x are left as they are; k selects what the sweep leaves in the
\* interior (0: the estimate had converged, k > 0: the right-hand side + k - 1).
GaussSeidel(x, b, k) ==
  Field(x.h, x.w, [pq \in Pix(x.h, x.w) |->
            LET y == pq[1]
                c == pq[2]
            IN IF OnBorder(x.h, x.w, y, c) \/ ~InRange(b, y, c) \/ k = 0
              THEN At(x, y, c)
              ELSE At(b, y, c) + (k - 1)])

\* myMultiply(x, temp, rho, lambda, type): temp = (identity + lambda * regularizer) x
\* with the four-neighbour coupling; border rows and columns get the identity.
MyMultiply(x, lambda) ==
  Field(x.h, x.w, [pq \in Pix(x.h, x.w) |->
            LET y == pq[1]
                c == pq[2]
            IN IF OnBorder(x.h, x.w, y, c)
              THEN At(x, y, c)
              ELSE At(x, y, c)
                   + lambda * (4 * At(x, y, c) - At(x, y - 1, c) - At(x, y + 1, c)
                                 - At(x, y, c - 1) - At(x, y, c + 1))])

\* weights with the diagonal as heavy as the edges: they sum to 20 sixteenths
FullWeightHeavy(dy, dx) == IF dy = 0 /\ dx = 0 THEN 4 ELSE 2

\* weight (in sixteenths) of the fine pixel at offset (dy, dx) in full weighting
FullWeight(dy, dx) == IF dy = 0 /\ dx = 0 THEN 4 ELSE IF dy = 0 \/ dx = 0 THEN 2 ELSE 1

\* the contribution of the fine pixel (y, x) to a full-weighting sum
Weighted(fine, y, x, dy, dx) ==
  IF InRange(fine, y + dy, x + dx) THEN FullWeight(dy, dx) * At(fine, y + dy, x + dx) ELSE 0

\* restriction(fine, coarse): full weighting of the 3 x 3 neighbourhood of (2y, 2x)
Restriction(fine, ch, cw) ==
  Field(ch, cw, [pq \in Pix(ch, cw) |->
            LET y == pq[1]
                c == pq[2]
            IN (Weighted(fine, 2 * y, 2 * c, -1, -1) + Weighted(fine, 2 * y, 2 * c, -1, 0)
             + Weighted(fine, 2 * y, 2 * c, -1, 1) + Weighted(fine, 2 * y, 2 * c, 0, -1)
             + Weighted(fine, 2 * y, 2 * c, 0, 0) + Weighted(fine, 2 * y, 2 * c, 0, 1)
             + Weighted(fine, 2 * y, 2 * c, 1, -1) + Weighted(fine, 2 * y, 2 * c, 1, 0)
             + Weighted(fine, 2 * y, 2 * c, 1, 1)) \div 16])

\* project(coarse, fine): bilinear interpolation; coarse points map exactly, odd
\* fine rows and columns are the mean of the two coarse neighbours (the last
\* coarse row or column is repeated past the edge).
Project(coarse, fh, fw) ==
  Field(fh, fw, [pq \in Pix(fh, fw) |->
            LET y == pq[1]
                c == pq[2]
            IN LET y0 == Min(y \div 2, coarse.h - 1)
                y1 == Min((y + 1) \div 2, coarse.h - 1)
                c0 == Min(c \div 2, coarse.w - 1)
                c1 == Min((c + 1) \div 2, coarse.w - 1)
            IN (At(coarse, y0, c0) + At(coarse, y0, c1)
                + At(coarse, y1, c0) + At(coarse, y1, c1)) \div 4])

\* dgesv_(N, 1, A, N, ipiv, B, N, info) with B holding a copy of b: the solution
\* it leaves in B.  k = 0 is the build without USE_CBLAS, where no solver runs
\* and B keeps the copy of b.
Solution(b, k) == Field(b.h, b.w, [pq \in Pix(b.h, b.w) |->
            LET y == pq[1]
                c == pq[2]
            IN At(b, y, c) + k])

\* a check that catches only an illegal argument (info < 0)
SolveFailedNegative(info) == info < 0

\* info of dgesv_: 0 on success, i > 0 when pivot i is exactly zero
SolveFailed(info) == info # 0

\* --------------------------------------------------------------- heap
Obj(name, level) == <<name, level>>

\* operator delete on object o
Released(rel, o) ==
  [x \in DOMAIN rel \cup {o} |-> IF x = o THEN (IF o \in DOMAIN rel THEN rel[o] + 1 ELSE 1)
                                          ELSE rel[x]]

RECURSIVE ReleasedAll(_, _)
ReleasedAll(rel, os) ==
  IF os = <<>> THEN rel ELSE ReleasedAll(Released(rel, Head(os)), Tail(os))

SeqToSet(s) == {s[i] : i \in DOMAIN s}

\* allocate the objects news, then delete the objects dels (in that order),
\* touching the objects uses in between
Heap(news, uses, dels) ==
  /\ live' = (live \cup news) \ SeqToSet(dels)
  /\ released' = ReleasedAll(released, dels)
  /\ memfault' = (memfault \/ ~(uses \subseteq (live \cup news))
                           \/ ~(SeqToSet(dels) \subseteq (live \cup news))
                           \/ Cardinality(SeqToSet(dels)) # Len(dels))

\* --------------------------------------------------------------- state
ZeroCounts == [mgv |-> 0, build |-> 0, solve |-> 0, smooth |-> 0, multiply |-> 0,
               restrict |-> 0, project |-> 0]

Bump(c, f) == [c EXCEPT ![f] = @ + 1]

NoInput == [nDim |-> 0, type |-> "none", h |-> 0, w |-> 0, c |-> 0, pattern |-> 0]

NoOpts == [lambda |-> DefaultLambda, n_grids |-> DefaultNGrids, type |-> DefaultType]

NoLoc == [image_grid |-> NoField, guess |-> NoField, light |-> NoField,
          t_output_double |-> NoField, t_output |-> NoField]

OtherIdle == [pc |-> "idle", level |-> 0, n_grids |-> 0]

\* no direct call
NoDirect == [fn |-> "none", pc |-> "none", data |-> NoField, k |-> 0, out |-> NoField]

\* the inputs a caller may hand to process()
Inputs ==
  {[nDim |-> 3, type |-> "Short", h |-> h, w |-> w, c |-> c, pattern |-> p] :
      h \in 1 .. MaxHeight, w \in 1 .. MaxWidth, c \in {1, 3}, p \in 0 .. MaxPattern}
  \cup {[nDim |-> 2, type |-> "Short", h |-> 2, w |-> 2, c |-> 1, pattern |-> 0],
        [nDim |-> 3, type |-> "Double", h |-> 2, w |-> 2, c |-> 1, pattern |-> 0]}

\* the state after ipVcycle::ipVcycle(): the constructor registers the options
\* and leaves n_grids_, height_ and width_ uninitialised
Init ==
  /\ m_output = Null
  /\ n_grids_ \in 0 .. 1
  /\ height_ \in 0 .. 1
  /\ width_ \in 0 .. 1
  /\ pc = "idle"
  /\ input = NoInput
  /\ opts = NoOpts
  /\ stack = <<>>
  /\ ret = NoField
  /\ loc = NoLoc
  /\ counts = ZeroCounts
  /\ levels = <<>>
  /\ live = {}
  /\ released = <<>>
  /\ memfault = FALSE
  /\ status = "none"
  /\ errors = 0
  /\ other = OtherIdle
  /\ direct = NoDirect

\* ------------------------------------------------ ipCore::process(input)
\* a caller sets the options and calls process(input)
ProcessWith(grids) ==
  /\ pc = "idle"
  /\ \E i \in Inputs, ng \in grids :
       /\ input' = i
       /\ opts' = [lambda |-> DefaultLambda, n_grids |-> ng, type |-> DefaultType]
  /\ pc' = "checkInput"
  /\ stack' = <<>>
  /\ ret' = NoField
  /\ loc' = NoLoc
  /\ counts' = ZeroCounts
  /\ levels' = <<>>
  /\ released' = <<>>
  /\ status' = "running"
  /\ errors' = 0
  /\ UNCHANGED <<m_output, n_grids_, height_, width_, live, memfault, other, direct>>

\* process(input) with the option n_grids set as the interface requires (>= 1)
Process == ProcessWith(1 .. MaxGrids)

\* process(input) with n_grids set to any integer: processInput reads the
\* option and stores it in n_grids_ without a test
ProcessAnyGrids == ProcessWith((0 - MaxGrids) .. MaxGrids)

\* process() returns false to the caller
Reject ==
  /\ pc' = "idle"
  /\ status' = "rejected"

checkInput(i) == ~(i.nDim # 3 \/ i.type # "Short")

CheckInput ==
  /\ pc = "checkInput"
  /\ IF checkInput(input) THEN pc' = "allocateOutput" /\ status' = status ELSE Reject
  /\ UNCHANGED <<m_output, n_grids_, height_, width_, input, opts, stack, ret, loc,
                 counts, levels, live, released, memfault, errors, other, direct>>

\* the condition without the comparison of size(1)
NeedAllocationNoWidth(out, i) == out = Null \/ out[1] # i.h \/ out[3] # i.c

\* the condition under which allocateOutput (re)allocates m_output
NeedAllocation(out, i) == out = Null \/ out[1] # i.h \/ out[2] # i.w \/ out[3] # i.c

\* allocateOutput(input): the new value of m_output and the value returned
allocateOutput(out, i) ==
  IF NeedAllocation(out, i)
    THEN [m_output |-> <<i.h, i.w, i.c>>, ok |-> TRUE]
    ELSE [m_output |-> out, ok |-> i.c = 1]

AllocateOutput ==
  /\ pc = "allocateOutput"
  /\ LET r == allocateOutput(m_output, input)
     IN /\ m_output' = r.m_output
        /\ IF r.ok THEN pc' = "processInput" /\ status' = status ELSE Reject
  /\ UNCHANGED <<n_grids_, height_, width_, input, opts, stack, ret, loc,
                 counts, levels, live, released, memfault, errors, other, direct>>

\* an instance field that keeps what the call before left in it
LeftOver(left, given) == left

\* n_grids_ = n_grids; height_ = height; width_ = width: the instance field is
\* assigned, whatever it held
Overwritten(left, given) == given

\* processInput, from the reading of the options to the zero initial guess
PiStart ==
  /\ pc = "processInput"
  /\ n_grids_' = Overwritten(n_grids_, opts.n_grids)
  /\ height_' = Overwritten(height_, input.h)
  /\ width_' = Overwritten(width_, input.w)
  /\ loc' = [loc EXCEPT
               !.t_output_double = Alloc(input.h, input.w),
               !.t_output = Filled(input.h, input.w, 0),
               !.image_grid = Field(input.h, input.w, [pq \in Pix(input.h, input.w) |->
            LET y == pq[1]
                x == pq[2]
            IN ImageValue(input.pattern, y, x)]),
               !.guess = Filled(input.h, input.w, 0)]
  /\ Heap({Obj("t_output_double", 0), Obj("image_grid", 0), Obj("guess", 0)}, {}, <<>>)
  /\ pc' = "callMgv"
  /\ UNCHANGED <<m_output, input, opts, stack, ret, counts, levels, status, errors, other, direct>>

\* the activation record of mgv(x_v, b_v, lambda, level, type)
Frame(x, b, lambda, level, type) ==
  [pc |-> "enter", level |-> level, lambda |-> lambda, type |-> type,
   x |-> x, b |-> b, height |-> b.h, width |-> b.w,
   result |-> NoField, solved |-> NoField, info |-> 0, opN |-> 0,
   temp |-> NoField, rhat |-> NoField, xhat |-> NoField, xcorr |-> NoField,
   rho |-> Null, passed |-> <<>>]

\* light = mgv(*guess, *image_grid, lambda, 0, type)
PiCallMgv ==
  /\ pc = "callMgv"
  /\ stack' = <<Frame(loc.guess, loc.image_grid, opts.lambda, 0, opts.type)>>
  /\ pc' = "mgv"
  /\ UNCHANGED <<m_output, n_grids_, height_, width_, input, opts, ret, loc,
                 counts, levels, live, released, memfault, status, errors, other, direct>>

\* ------------------------------------------------------------------ mgv
Top == stack[Len(stack)]

SetTop(f) == [stack EXCEPT ![Len(stack)] = f]

InMgv(at) == pc = "mgv" /\ stack # <<>> /\ Top.pc = at

\* The accesses of the next step of the innermost invocation stay inside the
\* tensors it holds.  The instance dimensions height_ and width_ size the tensors
\* and bound some loops while the dimensions of b_v bound the others; where this
\* fails the step reads or writes outside a tensor and its effect is undefined.
Defined ==
  IF pc = "reflectance" THEN loc.light.h >= input.h /\ loc.light.w >= input.w
  ELSE IF pc # "mgv" \/ stack = <<>> THEN TRUE
  ELSE CASE Top.pc = "build" -> width_ * height_ = Top.height * Top.width
         [] Top.pc = "solve" -> SameDims(Top.result, Top.b) /\ width_ * height_ = Top.opN
         [] Top.pc = "boundary" -> SameDims(Top.result, Top.b)
         [] Top.pc = "presmooth" -> SameDims(Top.x, Top.b)
         [] Top.pc = "residual" -> height_ = Top.height /\ width_ = Top.width
         [] Top.pc = "restrict" -> height_ <= Top.temp.h /\ width_ <= Top.temp.w
         [] Top.pc = "project" -> height_ <= Top.xhat.h /\ width_ <= Top.xhat.w
         [] Top.pc = "update" -> /\ height_ <= Top.result.h /\ width_ <= Top.result.w
                                 /\ height_ <= Top.x.h /\ width_ <= Top.x.w
                                 /\ height_ <= Top.xcorr.h /\ width_ <= Top.xcorr.w
         [] Top.pc = "postsmooth" -> SameDims(Top.result, Top.b)
         [] OTHER -> TRUE

\* the test off by one: level == n_grids_
IsCoarsestLate(level, n) == level = n

\* the coarsest level: solve directly
IsCoarsest(level, n) == level = n - 1

\* a routine handed the coefficient tensor of the finest level
PassFinest(fr, to) ==
  Append(fr.passed, [to |-> to, rho |-> Obj("rho", 0), lambda |-> fr.lambda, type |-> fr.type])

\* the call to(..., *rho, lambda, type) made by invocation fr, after those it
\* has made already
Pass(fr, to) ==
  Append(fr.passed, [to |-> to, rho |-> fr.rho, lambda |-> fr.lambda, type |-> fr.type])

\* entry of mgv: the locals, the result and the coefficient tensors, the branch
MgvEnter ==
  /\ InMgv("enter")
  /\ stack' = SetTop([Top EXCEPT
                        !.result = Alloc(height_, width_),
                        !.rho = Obj("rho", Top.level),
                        !.pc = IF IsCoarsest(Top.level, n_grids_) THEN "build" ELSE "presmooth"])
  /\ Heap({Obj("result", Top.level), Obj("rho", Top.level)}, {}, <<>>)
  /\ counts' = Bump(counts, "mgv")
  /\ levels' = Append(levels, Top.level)
  /\ UNCHANGED <<m_output, n_grids_, height_, width_, pc, input, opts, ret, loc,
                 status, errors, other, direct>>

\* coarsest level: allocate the dense operator and build it from the rhs
MgvBuild ==
  /\ InMgv("build")
  /\ Defined
  /\ stack' = SetTop([Top EXCEPT !.opN = width_ * height_,
                                 !.passed = Pass(Top, "buildOperator"),
                                 !.pc = "solve"])
  /\ Heap({Obj("diffOperator", Top.level)}, {Obj("rho", Top.level)}, <<>>)
  /\ counts' = Bump(counts, "build")
  /\ UNCHANGED <<m_output, n_grids_, height_, width_, pc, input, opts, ret, loc,
                 levels, status, errors, other, direct>>

\* what dgesv_ may leave behind: a solution with info = 0, or, when the
\* factorisation meets a zero pivot, the untouched copy of b with info > 0
SolveOutcomes == {[k |-> k, info |-> 0] : k \in 0 .. MaxSolve} \cup {[k |-> 0, info |-> 1]}

\* the result started from the guess
SolveInputGuess(x, b) == x

\* result->copy(t_b): the tensor the solve starts from
SolveInput(x, b) == b

\* the rhs when dgesv_ is handed d_b in place of d_result
RhsSolvedInPlace(b, k) == Solution(b, k)

\* the rhs after the solve: d_b is taken at line 209 but the solver is handed
\* d_result, the copy
RhsAfterSolve(b, k) == b

\* coarsest level: copy the rhs into the result and solve in place
MgvSolve ==
  /\ InMgv("solve")
  /\ Defined
  /\ \E o \in SolveOutcomes :
       stack' = SetTop([Top EXCEPT !.result = Solution(SolveInput(Top.x, Top.b), o.k),
                                   !.solved = Solution(SolveInput(Top.x, Top.b), o.k),
                                   !.b = RhsAfterSolve(Top.b, o.k),
                                   !.info = o.info,
                                   !.pc = "checkInfo"])
  /\ Heap({}, {Obj("diffOperator", Top.level), Obj("result", Top.level)}, <<>>)
  /\ counts' = Bump(counts, "solve")
  /\ UNCHANGED <<m_output, n_grids_, height_, width_, pc, input, opts, ret, loc,
                 levels, status, errors, other, direct>>

\* error(msg, ...): prints the message and ends the program
error ==
  /\ errors' = errors + 1
  /\ pc' = "fatal"
  /\ status' = "fatal"

\* if (info != 0) error(...)
MgvCheckInfo ==
  /\ InMgv("checkInfo")
  /\ IF SolveFailed(Top.info)
       THEN /\ error
            /\ stack' = stack
       ELSE /\ stack' = SetTop([Top EXCEPT !.pc = "boundary"])
            /\ UNCHANGED <<errors, pc, status>>
  /\ UNCHANGED <<m_output, n_grids_, height_, width_, input, opts, ret, loc,
                 counts, levels, live, released, memfault, other, direct>>

\* the test with && in place of the last ||
is_on_boundary_and(x, y, width, height) ==
  (x = 0) \/ (x = width - 1) \/ ((y = 0) /\ (y = width - 1))

\* is_on_boundary as the loop of the coarsest level computes it
is_on_boundary(x, y, width, height) == (x = 0) \/ (x = width - 1) \/ (y = 0) \/ (y = width - 1)

\* the loop "set boundary pixels to zero" over y < height, x < width
ZeroBoundary(res, height, width) ==
  Field(res.h, res.w, [pq \in Pix(res.h, res.w) |->
            LET y == pq[1]
                x == pq[2]
            IN IF y < height /\ x < width /\ is_on_boundary(x, y, width, height)
              THEN 0 ELSE At(res, y, x)])

MgvBoundary ==
  /\ InMgv("boundary")
  /\ Defined
  /\ stack' = SetTop([Top EXCEPT !.result = ZeroBoundary(Top.result, Top.height, Top.width),
                                 !.pc = "clean"])
  /\ Heap({}, {Obj("result", Top.level)}, <<>>)
  /\ UNCHANGED <<m_output, n_grids_, height_, width_, pc, input, opts, ret, loc,
                 counts, levels, status, errors, other, direct>>

\* the clean up of the coarsest level without the delete
CleanOperatorNone(level) == <<>>

\* Clean: delete diffOperator
CleanOperator(level) == <<Obj("diffOperator", level)>>

\* delete diffOperator
MgvClean ==
  /\ InMgv("clean")
  /\ stack' = SetTop([Top EXCEPT !.pc = "return"])
  /\ Heap({}, {}, CleanOperator(Top.level))
  /\ UNCHANGED <<m_output, n_grids_, height_, width_, pc, input, opts, ret, loc,
                 counts, levels, status, errors, other, direct>>

\* the outcomes of one call of gaussSeidel
SmoothKinds == 0 .. MaxSmooth

\* relax (pre-smooth) the guess in place
MgvPreSmooth ==
  /\ InMgv("presmooth")
  /\ Defined
  /\ \E k \in SmoothKinds :
       stack' = SetTop([Top EXCEPT !.x = GaussSeidel(Top.x, Top.b, k),
                                   !.passed = Pass(Top, "gaussSeidel"),
                                   !.pc = "residual"])
  /\ Heap({}, {Obj("rho", Top.level)}, <<>>)
  /\ counts' = Bump(counts, "smooth")
  /\ UNCHANGED <<m_output, n_grids_, height_, width_, pc, input, opts, ret, loc,
                 levels, status, errors, other, direct>>

\* the subtraction the other way round: temp = myMultiply(x_v) - b_v
ResidualReversed(x, b, lambda) ==
  LET m == MyMultiply(x, lambda)
  IN Field(b.h, b.w, [pq \in Pix(b.h, b.w) |->
            LET y == pq[1]
                c == pq[2]
            IN At(m, y, c) - At(b, y, c)])

\* temp = b_v - myMultiply(x_v)
Residual(x, b, lambda) ==
  LET m == MyMultiply(x, lambda)
  IN Field(b.h, b.w, [pq \in Pix(b.h, b.w) |->
            LET y == pq[1]
                c == pq[2]
            IN At(b, y, c) - At(m, y, c)])

MgvResidual ==
  /\ InMgv("residual")
  /\ Defined
  /\ stack' = SetTop([Top EXCEPT !.temp = Residual(Top.x, Top.b, Top.lambda),
                                 !.passed = Pass(Top, "myMultiply"),
                                 !.pc = "restrict"])
  /\ Heap({}, {Obj("rho", Top.level)}, <<>>)
  /\ counts' = Bump(counts, "multiply")
  /\ UNCHANGED <<m_output, n_grids_, height_, width_, pc, input, opts, ret, loc,
                 levels, status, errors, other, direct>>

\* the coarse dimension rounded up
CoarseDimUp(n) == (n + 1) \div 2

\* DoubleTensor rhat( height_/2, width_/2, 1): a dimension of the coarse grid
CoarseDim(n) == n \div 2

\* the instance dimension left as it is
NotHalved(n) == n

\* width_ /= 2; height_ /= 2
Halved(n) == n \div 2

\* restrict the residual and halve the instance dimensions
MgvRestrict ==
  /\ InMgv("restrict")
  /\ Defined
  /\ stack' = SetTop([Top EXCEPT !.rhat = Restriction(Top.temp, CoarseDim(height_), CoarseDim(width_)),
                                 !.pc = "recurse"])
  /\ width_' = Halved(width_)
  /\ height_' = Halved(height_)
  /\ counts' = Bump(counts, "restrict")
  /\ UNCHANGED <<m_output, n_grids_, pc, input, opts, ret, loc, levels, live, released,
                 memfault, status, errors, other, direct>>

\* the guess left with a value other than zero
ZeroGuessOnes(h, w) == Filled(h, w, 1)

\* DoubleTensor zero(height_, width_, 1); zero.fill(0.)
ZeroGuess(h, w) == Filled(h, w, 0)

\* xhat = mgv(zero, rhat, lambda, level+1, type)
MgvRecurse ==
  /\ InMgv("recurse")
  /\ Len(stack) < MaxDepth
  /\ stack' = Append(SetTop([Top EXCEPT !.pc = "project"]),
                     Frame(ZeroGuess(height_, width_), Top.rhat, Top.lambda,
                           Top.level + 1, Top.type))
  /\ UNCHANGED <<m_output, n_grids_, height_, width_, pc, input, opts, ret, loc,
                 counts, levels, live, released, memfault, status, errors, other, direct>>

\* interpolate the correction, double the instance dimensions, free xhat
MgvProject ==
  /\ InMgv("project")
  /\ Defined
  /\ stack' = SetTop([Top EXCEPT !.xcorr = Project(Top.xhat, height_ * 2, width_ * 2),
                                 !.pc = "update"])
  /\ width_' = width_ * 2
  /\ height_' = height_ * 2
  /\ Heap({}, {Obj("result", Top.level + 1)}, <<Obj("result", Top.level + 1)>>)
  /\ counts' = Bump(counts, "project")
  /\ UNCHANGED <<m_output, n_grids_, pc, input, opts, ret, loc, levels, status, errors, other, direct>>

\* the loop "update solution" over y < height_, x < width_; g is what the
\* pixels of the freshly allocated result hold where the loop does not write
Update(res, x, xcorr, h, w, g) ==
  Field(res.h, res.w, [pq \in Pix(res.h, res.w) |->
            LET y == pq[1]
                c == pq[2]
            IN IF y < h /\ c < w THEN At(x, y, c) + At(xcorr, y, c) ELSE g])

\* the values an unwritten pixel of a new tensor may hold
Garbage(res, h, w) == IF h >= res.h /\ w >= res.w THEN {0} ELSE 0 .. 1

MgvUpdate ==
  /\ InMgv("update")
  /\ Defined
  /\ \E g \in Garbage(Top.result, height_, width_) :
       stack' = SetTop([Top EXCEPT
                          !.result = Update(Top.result, Top.x, Top.xcorr, height_, width_, g),
                          !.pc = "postsmooth"])
  /\ Heap({}, {Obj("result", Top.level)}, <<>>)
  /\ UNCHANGED <<m_output, n_grids_, height_, width_, pc, input, opts, ret, loc,
                 counts, levels, status, errors, other, direct>>

\* the recursive case without its post-smoothing
MgvPostSmoothNone ==
  /\ InMgv("postsmooth")
  /\ Defined
  /\ stack' = SetTop([Top EXCEPT !.pc = "return"])
  /\ Heap({}, {Obj("rho", Top.level), Obj("result", Top.level)}, <<>>)
  /\ UNCHANGED <<m_output, n_grids_, height_, width_, pc, input, opts, ret, loc,
                 counts, levels, status, errors, other, direct>>

\* relax (post-smooth) the new estimate in place
MgvPostSmooth ==
  /\ InMgv("postsmooth")
  /\ Defined
  /\ \E k \in SmoothKinds :
       stack' = SetTop([Top EXCEPT !.result = GaussSeidel(Top.result, Top.b, k),
                                   !.passed = Pass(Top, "gaussSeidel"),
                                   !.pc = "return"])
  /\ Heap({}, {Obj("rho", Top.level), Obj("result", Top.level)}, <<>>)
  /\ counts' = Bump(counts, "smooth")
  /\ UNCHANGED <<m_output, n_grids_, height_, width_, pc, input, opts, ret, loc,
                 levels, status, errors, other, direct>>

\* delete rho; return result: to the calling mgv, or to processInput
MgvReturn ==
  /\ InMgv("return")
  /\ ret' = Top.result
  /\ Heap({}, {}, <<Obj("rho", Top.level)>>)
  /\ IF Len(stack) = 1
       THEN /\ stack' = <<>>
            /\ loc' = [loc EXCEPT !.light = Top.result, !.guess = Top.x, !.image_grid = Top.b]
            /\ pc' = "reflectance"
       ELSE /\ stack' = [SubSeq(stack, 1, Len(stack) - 1) EXCEPT
                           ![Len(stack) - 1].xhat = Top.result,
                           ![Len(stack) - 1].rhat = Top.b]
            /\ UNCHANGED <<loc, pc>>
  /\ UNCHANGED <<m_output, n_grids_, height_, width_, input, opts, counts, levels,
                 status, errors, other, direct>>

\* ------------------------------------------------- processInput, the rest
\* the tolerance 0.01 of the test on light; it is the unit of the pixel values
NearDelta == 1

\* the test with strict comparisons
IS_NEAR_strict(var, value, delta) == (var > value - delta) /\ (var < value + delta)

\* IS_NEAR(var, value, delta)
IS_NEAR(var, value, delta) == (var >= value - delta) /\ (var <= value + delta)

\* the loop with the last row tested against the width, as in the boundary
\* loop of mgv
ReflectanceWidthBug(image, light, height, width) ==
  Field(height, width, [pq \in Pix(height, width) |->
            LET y == pq[1]
                x == pq[2]
            IN IF (y = 0) \/ (y = width - 1) \/ (x = 0) \/ (x = width - 1)
              THEN 1
              ELSE IF IS_NEAR(At(light, y, x), 0, NearDelta)
                     THEN 1
                     ELSE At(image, y, x) \div At(light, y, x)])

\* build final result (R = I/L)
Reflectance(image, light, height, width) ==
  Field(height, width, [pq \in Pix(height, width) |->
            LET y == pq[1]
                x == pq[2]
            IN IF (y = 0) \/ (y = height - 1) \/ (x = 0) \/ (x = width - 1)
              THEN 1
              ELSE IF IS_NEAR(At(light, y, x), 0, NearDelta)
                     THEN 1
                     ELSE At(image, y, x) \div At(light, y, x)])

PiReflectance ==
  /\ pc = "reflectance"
  /\ Defined
  /\ loc' = [loc EXCEPT !.t_output_double =
                          Reflectance(loc.image_grid, loc.light, input.h, input.w)]
  /\ Heap({}, {Obj("t_output_double", 0), Obj("image_grid", 0), Obj("result", 0)}, <<>>)
  /\ pc' = "cutExtremum"
  /\ UNCHANGED <<m_output, n_grids_, height_, width_, input, opts, stack, ret,
                 counts, levels, status, errors, other, direct>>

\* the pixel with row-major index i
PixelAt(f, i) == At(f, i \div f.w, i % f.w)

RECURSIVE SumPixels(_, _)
SumPixels(f, n) == IF n = 0 THEN 0 ELSE PixelAt(f, n - 1) + SumPixels(f, n - 1)

RECURSIVE SumSquares(_, _, _)
SumSquares(f, m, n) ==
  IF n = 0 THEN 0
  ELSE (PixelAt(f, n - 1) - m) * (PixelAt(f, n - 1) - m) + SumSquares(f, m, n - 1)

\* the largest r in lo .. hi with r * r <= v
RECURSIVE Root(_, _, _)
Root(v, lo, hi) ==
  IF lo >= hi THEN lo
  ELSE LET mid == (lo + hi + 1) \div 2
       IN IF mid * mid <= v THEN Root(v, mid, hi) ELSE Root(v, lo, mid - 1)

\* sqrt, rounded down
Sqrt(v) == Root(v, 0, v)

Mean(f) == SumPixels(f, f.h * f.w) \div (f.h * f.w)

\* the sample standard deviation, var_out /= (wxh - 1)
StdDev(f) == Sqrt(SumSquares(f, Mean(f), f.h * f.w) \div (f.h * f.w - 1))

\* the cut without the lower bound
cutExtremumUpperOnly(data, distribution_width) ==
  IF data.h * data.w = 1 THEN data
  ELSE LET mean_plus_dxstd == Mean(data) + distribution_width * StdDev(data)
       IN Field(data.h, data.w, [pq \in Pix(data.h, data.w) |->
            LET y == pq[1]
                x == pq[2]
            IN IF At(data, y, x) > mean_plus_dxstd THEN mean_plus_dxstd
                    ELSE At(data, y, x)])

\* cutExtremum(data, distribution_width, 0); with a single pixel the variance is
\* 0/0, no comparison with the bounds succeeds and the data is left as it is
cutExtremum(data, distribution_width) ==
  IF data.h * data.w = 1 THEN data
  ELSE LET mean_plus_dxstd == Mean(data) + distribution_width * StdDev(data)
           mean_minus_dxstd == Mean(data) - distribution_width * StdDev(data)
       IN Field(data.h, data.w, [pq \in Pix(data.h, data.w) |->
            LET y == pq[1]
                x == pq[2]
            IN IF At(data, y, x) > mean_plus_dxstd THEN mean_plus_dxstd
                    ELSE IF At(data, y, x) < mean_minus_dxstd THEN mean_minus_dxstd
                    ELSE At(data, y, x)])

PiCutExtremum ==
  /\ pc = "cutExtremum"
  /\ loc' = [loc EXCEPT !.t_output_double = cutExtremum(loc.t_output_double, CutWidth)]
  /\ Heap({}, {Obj("t_output_double", 0)}, <<>>)
  /\ pc' = "rescale"
  /\ UNCHANGED <<m_output, n_grids_, height_, width_, input, opts, stack, ret,
                 counts, levels, status, errors, other, direct>>

PixelValues(f) == {f.d[p] : p \in DOMAIN f.d}

MaxOf(S) == CHOOSE m \in S : \A e \in S : e <= m

MinOf(S) == CHOOSE m \in S : \A e \in S : m <= e

\* ipRescaleGray::process: the linear map of the values onto the display range
RescaleGray(f) ==
  LET lo == MinOf(PixelValues(f))
      hi == MaxOf(PixelValues(f))
  IN Field(f.h, f.w, [pq \in Pix(f.h, f.w) |->
            LET y == pq[1]
                x == pq[2]
            IN IF hi = lo THEN 0 ELSE ((At(f, y, x) - lo) * DisplayMax) \div (hi - lo)])

\* rescale into [0,255], copy into the output tensor, delete the rescaler
PiRescale ==
  /\ pc = "rescale"
  /\ loc' = [loc EXCEPT !.t_output = RescaleGray(loc.t_output_double)]
  /\ Heap({Obj("rescale", 0)}, {Obj("t_output_double", 0)}, <<Obj("rescale", 0)>>)
  /\ pc' = "cleanup"
  /\ UNCHANGED <<m_output, n_grids_, height_, width_, input, opts, stack, ret,
                 counts, levels, status, errors, other, direct>>

\* the clean up without "delete light"
CleanUpLeak == <<Obj("guess", 0), Obj("image_grid", 0), Obj("t_output_double", 0)>>

\* delete guess; delete image_grid; delete light; delete t_output_double
CleanUp == <<Obj("guess", 0), Obj("image_grid", 0), Obj("result", 0), Obj("t_output_double", 0)>>

\* Clean up; return true
PiCleanup ==
  /\ pc = "cleanup"
  /\ Heap({}, {}, CleanUp)
  /\ loc' = [NoLoc EXCEPT !.t_output = loc.t_output]
  /\ ret' = NoField
  /\ pc' = "idle"
  /\ status' = "done"
  /\ UNCHANGED <<m_output, n_grids_, height_, width_, input, opts, stack,
                 counts, levels, errors, other, direct>>

\* ------------------------------------------------------- specification
\* the steps of the call in progress
Run ==
  \/ CheckInput
  \/ AllocateOutput
  \/ PiStart
  \/ PiCallMgv
  \/ MgvEnter
  \/ MgvBuild
  \/ MgvSolve
  \/ MgvCheckInfo
  \/ MgvBoundary
  \/ MgvClean
  \/ MgvPreSmooth
  \/ MgvResidual
  \/ MgvRestrict
  \/ MgvRecurse
  \/ MgvProject
  \/ MgvUpdate
  \/ MgvPostSmooth
  \/ MgvReturn
  \/ PiReflectance
  \/ PiCutExtremum
  \/ PiRescale
  \/ PiCleanup

Next == Process \/ Run

Spec == Init /\ [][Next]_vars

\* processInput is synchronous and runs to completion: a call in progress
\* always takes its next step
SpecFair == Spec /\ WF_vars(Run)

\* ------------------------------------- a second invocation, interleaved
\* The same instance is handed a second image while the first call is inside
\* mgv.  Of that second processInput / mgv only the accesses to the instance
\* fields n_grids_, height_ and width_ are modelled: they are all it shares
\* with the first call.

\* second call, processInput: n_grids_ = n_grids; height_ = height; width_ = width
OtherStart ==
  /\ pc = "mgv"
  /\ other.pc = "idle"
  /\ \E h \in 1 .. 2, w \in 1 .. 2, ng \in 1 .. MaxGrids :
       /\ n_grids_' = ng
       /\ height_' = h
       /\ width_' = w
       /\ other' = [pc |-> "enter", level |-> 0, n_grids |-> ng]
  /\ UNCHANGED <<m_output, pc, input, opts, stack, ret, loc, counts, levels, live,
                 released, memfault, status, errors, direct>>

\* second call, mgv: if (level == n_grids_-1) solve and return, else descend
OtherEnter ==
  /\ pc = "mgv"
  /\ other.pc = "enter"
  /\ other' = [other EXCEPT !.pc = IF IsCoarsest(other.level, n_grids_)
                                     THEN "return" ELSE "restrict"]
  /\ UNCHANGED <<m_output, n_grids_, height_, width_, pc, input, opts, stack, ret, loc,
                 counts, levels, live, released, memfault, status, errors, direct>>

\* second call, mgv: width_ /= 2; height_ /= 2; and the recursive call
OtherRestrict ==
  /\ pc = "mgv"
  /\ other.pc = "restrict"
  /\ other.level + 1 < MaxDepth
  /\ width_' = Halved(width_)
  /\ height_' = Halved(height_)
  /\ other' = [other EXCEPT !.pc = "enter", !.level = @ + 1]
  /\ UNCHANGED <<m_output, n_grids_, pc, input, opts, stack, ret, loc, counts, levels,
                 live, released, memfault, status, errors, direct>>

\* second call, mgv: return to the caller, which is mgv or processInput
OtherReturn ==
  /\ pc = "mgv"
  /\ other.pc = "return"
  /\ other' = IF other.level = 0 THEN [other EXCEPT !.pc = "done"]
              ELSE [other EXCEPT !.pc = "project", !.level = @ - 1]
  /\ UNCHANGED <<m_output, n_grids_, height_, width_, pc, input, opts, stack, ret, loc,
                 counts, levels, live, released, memfault, status, errors, direct>>

\* second call, mgv: width_ *= 2; height_ *= 2
OtherProject ==
  /\ pc = "mgv"
  /\ other.pc = "project"
  /\ width_' = width_ * 2
  /\ height_' = height_ * 2
  /\ other' = [other EXCEPT !.pc = "return"]
  /\ UNCHANGED <<m_output, n_grids_, pc, input, opts, stack, ret, loc, counts, levels,
                 live, released, memfault, status, errors, direct>>

\* the first call runs into an access outside a tensor
Undefined ==
  /\ ~Defined
  /\ pc' = "undefined"
  /\ status' = "undefined"
  /\ UNCHANGED <<m_output, n_grids_, height_, width_, input, opts, stack, ret, loc,
                 counts, levels, live, released, memfault, errors, other, direct>>

\* the first call as in Next, with no further call once the second has begun
NextConcurrent ==
  \/ (other.pc = "idle" /\ Process)
  \/ Run
  \/ OtherStart
  \/ OtherEnter
  \/ OtherRestrict
  \/ OtherReturn
  \/ OtherProject
  \/ Undefined

SpecConcurrent == Init /\ [][NextConcurrent]_vars

\* ------------------------------------------ any value of the option n_grids
NextAnyGrids == ProcessAnyGrids \/ Run

SpecAnyGrids == Init /\ [][NextAnyGrids]_vars

\* ------------------------------------------- direct calls of one routine
\* cutExtremum and the two grid transfers are also called directly, on data
\* that need not come out of a V-cycle.

MaxCutW == 2

MaxCutValue == 2

MaxCutK == 2

MaxConst == 2

\* the resolution of the pixel values handed to a direct call
Unit == 100

\* the instance fields and the state of process(), which a direct call leaves alone
instance == <<m_output, n_grids_, height_, width_, pc, input, opts, stack, ret, loc,
              counts, levels, live, released, memfault, status, errors, other>>

\* DoubleTensor& data of cutExtremum: any field of one or two rows
CutFields ==
  UNION {{Field(h, w, d) : d \in [Pix(h, w) -> {v * Unit : v \in 0 .. MaxCutValue}]} :
           h \in 1 .. 2, w \in 1 .. MaxCutW}

\* cutExtremum(data, distribution_width, 0) about to run
CutCalls ==
  {[fn |-> "cutExtremum", pc |-> "called", data |-> f, k |-> k, out |-> NoField] :
     f \in CutFields, k \in 1 .. MaxCutK}

\* restriction of a constant field of even height and width, then project back
TransferCalls ==
  {[fn |-> "restriction", pc |-> "called", data |-> Filled(2 * h, 2 * w, c * Unit),
    k |-> 0, out |-> NoField] :
     h \in 1 .. (MaxHeight \div 2), w \in 1 .. (MaxWidth \div 2), c \in 1 .. MaxConst}

InitDirect ==
  /\ m_output = Null
  /\ n_grids_ = 0
  /\ height_ = 0
  /\ width_ = 0
  /\ pc = "idle"
  /\ input = NoInput
  /\ opts = NoOpts
  /\ stack = <<>>
  /\ ret = NoField
  /\ loc = NoLoc
  /\ counts = ZeroCounts
  /\ levels = <<>>
  /\ live = {}
  /\ released = <<>>
  /\ memfault = FALSE
  /\ status = "none"
  /\ errors = 0
  /\ other = OtherIdle
  /\ direct \in CutCalls \cup TransferCalls

\* cutExtremum(data, distribution_width, 0) clips data in place
DirectCutExtremum ==
  /\ direct.fn = "cutExtremum"
  /\ direct.pc = "called"
  /\ direct' = [direct EXCEPT !.out = cutExtremum(direct.data, direct.k),
                              !.pc = "returned"]
  /\ UNCHANGED instance

\* restriction(fine, coarse) onto the grid of half the height and width
DirectRestriction ==
  /\ direct.fn = "restriction"
  /\ direct.pc = "called"
  /\ direct' = [direct EXCEPT
                  !.out = Restriction(direct.data, CoarseDim(direct.data.h),
                                      CoarseDim(direct.data.w)),
                  !.pc = "restricted"]
  /\ UNCHANGED instance

\* project(coarse, fine) back onto the grid the field came from
DirectProject ==
  /\ direct.fn = "restriction"
  /\ direct.pc = "restricted"
  /\ direct' = [direct EXCEPT !.out = Project(direct.out, direct.data.h, direct.data.w),
                              !.pc = "returned"]
  /\ UNCHANGED instance

NextDirect == DirectCutExtremum \/ DirectRestriction \/ DirectProject

SpecDirect == InitDirect /\ [][NextDirect]_vars

\* ------------------------------------------------ mgv called on any guess
\* mgv(x_v, b_v, lambda, 0, type) entered with the instance prepared as
\* processInput prepares it, but on a guess that need not be zero.

MaxGuess == 2

\* the steps of mgv
Mgv ==
  \/ MgvEnter
  \/ MgvBuild
  \/ MgvSolve
  \/ MgvCheckInfo
  \/ MgvBoundary
  \/ MgvClean
  \/ MgvPreSmooth
  \/ MgvResidual
  \/ MgvRestrict
  \/ MgvRecurse
  \/ MgvProject
  \/ MgvUpdate
  \/ MgvPostSmooth
  \/ MgvReturn

\* the rhs of the call: the image with pattern p
ImageField(h, w, p) ==
  Field(h, w, [pq \in Pix(h, w) |-> ImageValue(p, pq[1], pq[2])])

InitMgv ==
  \E h \in 1 .. MaxHeight, w \in 1 .. MaxWidth, p \in 0 .. MaxPattern,
     ng \in 1 .. MaxGrids, g \in 0 .. MaxGuess :
    /\ m_output = <<h, w, 1>>
    /\ n_grids_ = ng
    /\ height_ = h
    /\ width_ = w
    /\ pc = "mgv"
    /\ input = [nDim |-> 3, type |-> "Short", h |-> h, w |-> w, c |-> 1, pattern |-> p]
    /\ opts = [lambda |-> DefaultLambda, n_grids |-> ng, type |-> DefaultType]
    /\ stack = <<Frame(Filled(h, w, g), ImageField(h, w, p), DefaultLambda, 0, DefaultType)>>
    /\ ret = NoField
    /\ loc = [NoLoc EXCEPT !.t_output_double = Alloc(h, w),
                           !.t_output = Filled(h, w, 0),
                           !.image_grid = ImageField(h, w, p),
                           !.guess = Filled(h, w, g)]
    /\ counts = ZeroCounts
    /\ levels = <<>>
    /\ live = {Obj("t_output_double", 0), Obj("image_grid", 0), Obj("guess", 0)}
    /\ released = <<>>
    /\ memfault = FALSE
    /\ status = "running"
    /\ errors = 0
    /\ other = OtherIdle
    /\ direct = [fn |-> "mgv", pc |-> "called", data |-> Filled(h, w, g), k |-> g,
                 out |-> NoField]

NextMgv == Mgv

SpecMgv == InitMgv /\ [][NextMgv]_vars

\* =============================================================== claims
\* the border of the grid of field f: first/last row, first/last column
Border(f) == {p \in Pix(f.h, f.w) : OnBorder(f.h, f.w, p[1], p[2])}

Frames == {stack[i] : i \in DOMAIN stack}

\* C1: in the coarsest-level case of mgv every pixel of the result in row 0,
\* row H-1, column 0 or column W-1 is exactly 0 once the boundary loop has run,
\* for every grid height H and width W.
C1_TerminalBoundaryZero ==
  \A fr \in Frames :
    (fr.pc \in {"clean", "return"} /\ fr.solved # NoField)
      => \A p \in Border(fr.result) : fr.result.d[p] = 0

\* 2^n
RECURSIVE Pow2(_)
Pow2(n) == IF n <= 0 THEN 1 ELSE 2 * Pow2(n - 1)

\* C2: an image whose height or width is not a multiple of 2^(n_grids-1) is
\* detected before the first mgv call: no mgv invocation, smoothing or solve is
\* ever in progress on such an input.
C2_DimensionsValidated ==
  (pc \in {"callMgv", "mgv"})
    => /\ input.h % Pow2(opts.n_grids - 1) = 0
       /\ input.w % Pow2(opts.n_grids - 1) = 0

\* C3: an input with more than one channel is rejected by checkInput /
\* allocateOutput: processInput never runs on it, on a fresh instance or later.
C3_MultiChannelRejected ==
  (pc \notin {"idle", "checkInput", "allocateOutput"}) => input.c = 1

\* C4: when dgesv_ reports info != 0 the V-cycle reports a fatal error exactly
\* once, does not solve again, and processInput does not go on to produce an
\* output: the call stays in the failed invocation, the output still cleared.
C4_SolverFailureFatal ==
  /\ errors <= 1
  /\ (errors = 1) <=> (pc = "fatal")
  /\ \A fr \in Frames :
       (fr.info # 0 /\ fr.pc # "checkInfo")
         => /\ pc = "fatal" /\ status = "fatal" /\ errors = 1
            /\ counts.solve = 1
            /\ fr = Top
            /\ loc.t_output = Filled(input.h, input.w, 0)
            /\ loc.light = NoField

\* a solver failure at a nested level has ended the call
C4_Witness ==
  /\ pc = "fatal" /\ errors = 1
  /\ Len(stack) = 2 /\ Top.info # 0 /\ Top.level = 1

\* C5: at entry of every mgv invocation height_ and width_ equal the height and
\* width of the rhs, and the result of every invocation has exactly the height
\* and width of its rhs, up to and including its return.
C5_ResultDimsMatchRhs ==
  /\ \A fr \in Frames :
       IF fr.pc = "enter"
         THEN height_ = fr.b.h /\ width_ = fr.b.w
         ELSE SameDims(fr.result, fr.b)
  /\ (pc = "reflectance") => (ret.h = input.h /\ ret.w = input.w)

\* a nested invocation on a grid halved from odd dimensions is about to return
C5_Witness ==
  /\ Len(stack) = 2
  /\ Top.pc = "return"
  /\ stack[1].b.h = 3 /\ Top.b.h = 1 /\ Top.result.h = 1
  /\ stack[1].b.w = 5 /\ Top.result.w = 2

\* the levels 0, 1, ..., n-1 in that order
LevelsUpTo(n) == [i \in 1 .. n |-> i - 1]

\* C6 (the counts): the mgv invocations of one processInput call are entered at
\* levels 0, 1, 2, ... in that order and never more than n_grids of them; when
\* the call has returned there were exactly n_grids invocations, one direct
\* solve, n_grids-1 restrictions, n_grids-1 prolongations and 2*(n_grids-1)
\* smoother calls.
CallCounts ==
  /\ levels = LevelsUpTo(Len(levels))
  /\ Len(levels) <= opts.n_grids
  /\ counts.mgv = Len(levels)
  /\ counts.solve <= 1
  /\ (counts.solve = 1) => (Len(levels) = opts.n_grids)
  /\ (status = "done")
       => /\ levels = LevelsUpTo(opts.n_grids)
          /\ counts.solve = 1
          /\ counts.restrict = opts.n_grids - 1
          /\ counts.project = opts.n_grids - 1
          /\ counts.smooth = 2 * (opts.n_grids - 1)

\* C6: for every n_grids >= 1 a processInput call that has begun comes to its
\* end (it returns, or the program ends in error()), and performs the mgv
\* invocations, solve, restrictions, prolongations and smoother calls of
\* CallCounts.
C6_TerminatesWithCounts ==
  /\ []CallCounts
  /\ (pc = "processInput") ~> (pc \in {"idle", "fatal"})

\* a call with two grids has returned
C6_Witness ==
  /\ status = "done" /\ pc = "idle"
  /\ opts.n_grids = 2
  /\ levels = <<0, 1>>
  /\ counts.smooth = 2 /\ counts.restrict = 1 /\ counts.project = 1 /\ counts.solve = 1

\* the only invocation of a call with n_grids = 1, about to return
SingleGridReturn == pc = "mgv" /\ Len(stack) = 1 /\ opts.n_grids = 1 /\ Top.pc = "return"

OnlyDirectSolve ==
  /\ counts.build = 1 /\ counts.solve = 1
  /\ counts.smooth = 0 /\ counts.multiply = 0
  /\ counts.restrict = 0 /\ counts.project = 0

C8_BoundaryZeroEveryLevel ==
  (opts.n_grids >= 2 /\ pc = "mgv")
    => \A fr \in Frames :
         (fr.pc = "return") => \A p \in Border(fr.result) : fr.result.d[p] = 0

\* C9: an interleaved second invocation on the same instance cannot change the
\* depth or the grid dimensions the first invocation works with: no step of
\* the second invocation changes n_grids_, height_ or width_ while the first is
\* inside mgv.
C9_NoSharedDimensions ==
  [][(pc = "mgv" /\ other' # other) => UNCHANGED <<n_grids_, height_, width_>>]_vars

\* the heap objects one call with n grids allocates
Allocated(n) ==
  {Obj("guess", 0), Obj("image_grid", 0), Obj("t_output_double", 0), Obj("rescale", 0),
   Obj("diffOperator", n - 1)}
  \cup {Obj("result", l) : l \in 0 .. n - 1}
  \cup {Obj("rho", l) : l \in 0 .. n - 1}

\* C10: no object is deleted twice or touched after its delete, and after
\* processInput has returned every object allocated during the call (guess,
\* image copy, light, unscaled output, each level's result and coefficient
\* set, the dense operator, the rescaler) has been released exactly once and
\* nothing allocated by the call is left.
C10_AllReleasedOnce ==
  /\ ~memfault
  /\ \A o \in DOMAIN released : released[o] = 1 /\ o \notin live
  /\ (status = "done")
       => /\ live = {}
          /\ DOMAIN released = Allocated(opts.n_grids)

\* a call with two grids has returned and released both levels' tensors
C10_Witness ==
  /\ status = "done" /\ pc = "idle"
  /\ opts.n_grids = 2
  /\ Obj("diffOperator", 1) \in DOMAIN released
  /\ Obj("result", 1) \in DOMAIN released
  /\ Obj("rho", 0) \in DOMAIN released
  /\ live = {}

\* the dense operators that exist or have existed
Operators == {o \in live \cup DOMAIN released : o[1] = "diffOperator"}

\* C11: the dense system matrix is allocated only in the mgv invocation at level
\* n_grids-1, once per processInput call, with N x N entries where N is the
\* pixel count of that invocation's right-hand side, and it is released before
\* that invocation returns (released once when the call has returned).
C11_OperatorOnlyAtCoarsest ==
  /\ counts.build <= 1
  /\ Operators \subseteq {Obj("diffOperator", opts.n_grids - 1)}
  /\ \A fr \in Frames :
       /\ (Obj("diffOperator", fr.level) \in live)
            => /\ fr.level = opts.n_grids - 1
               /\ fr.opN = fr.b.h * fr.b.w
               /\ fr.pc \in {"solve", "checkInfo", "boundary", "clean"}
       /\ (fr.pc = "return" /\ fr.level = opts.n_grids - 1)
            => /\ Obj("diffOperator", fr.level) \notin live
               /\ released[Obj("diffOperator", fr.level)] = 1
  /\ (status = "done")
       => /\ counts.build = 1
          /\ released[Obj("diffOperator", opts.n_grids - 1)] = 1
  /\ (pc = "fatal") => counts.build = 1

\* the coarsest of two levels holds its 6 x 6 operator of a 2 x 3 right-hand side
C11_Witness ==
  /\ opts.n_grids = 2
  /\ Len(stack) = 2
  /\ Top.pc = "clean"
  /\ Top.level = 1
  /\ Top.opN = 6
  /\ Top.b.h = 2 /\ Top.b.w = 3
  /\ Obj("diffOperator", 1) \in live

\* C12: whenever allocateOutput returns true the output tensor has exactly the
\* three dimensions of the input it was called with, over any sequence of calls
\* with inputs of varying sizes.
C12_OutputDimsMatchInput ==
  (pc \notin {"idle", "checkInput", "allocateOutput"})
    => m_output = <<input.h, input.w, input.c>>

\* allocateOutput has just returned true for an input smaller than the one of
\* the call before (whose height is still in height_)
C12_Witness ==
  /\ pc = "processInput"
  /\ height_ = 4
  /\ input.h = 2
  /\ m_output = <<2, input.w, 1>>

\* the pixels of field f that are not on its border
Interior(f) == Pix(f.h, f.w) \ Border(f)

\* C13: in the reflectance field every pixel of the first or last row or of the
\* first or last column is exactly 1, whatever the image and the light hold at
\* that pixel.
C13_ReflectanceBorderOne ==
  (pc = "cutExtremum")
    => /\ loc.t_output_double.h = input.h
       /\ loc.t_output_double.w = input.w
       /\ \A p \in Border(loc.t_output_double) : loc.t_output_double.d[p] = 1

\* the reflectance is built and at some border pixel the quotient of image and
\* light is defined and is not 1
C13_Witness ==
  /\ pc = "cutExtremum"
  /\ \E p \in Border(loc.t_output_double) :
       /\ ~IS_NEAR(loc.light.d[p], 0, NearDelta)
       /\ loc.image_grid.d[p] \div loc.light.d[p] # 1
       /\ loc.t_output_double.d[p] = 1

\* C14: at every pixel off the border the reflectance is 1 when the light is
\* within the tolerance 0.01 of zero and image / light otherwise, so that the
\* division is never made with a light of zero or within the tolerance of zero.
C14_InteriorGuardedQuotient ==
  (pc = "cutExtremum")
    => \A p \in Interior(loc.t_output_double) :
         LET l == loc.light.d[p]
         IN IF (l >= 0 - NearDelta) /\ (l <= NearDelta)
              THEN loc.t_output_double.d[p] = 1
              ELSE loc.t_output_double.d[p] = loc.image_grid.d[p] \div l

\* the reflectance is built from a light that is at the tolerance at one pixel
\* off the border, where the image is not, and beyond it at another
C14_Witness ==
  /\ pc = "cutExtremum"
  /\ \E p \in Interior(loc.t_output_double) :
       /\ loc.light.d[p] = NearDelta
       /\ loc.image_grid.d[p] # NearDelta
       /\ loc.t_output_double.d[p] = 1
  /\ \E q \in Interior(loc.t_output_double) :
       /\ loc.light.d[q] > NearDelta
       /\ loc.t_output_double.d[q] = loc.image_grid.d[q] \div loc.light.d[q]

\* the direct call of cutExtremum has returned
CutReturned == direct.fn = "cutExtremum" /\ direct.pc = "returned"

\* v lies within distribution_width standard deviations of the mean of field f.
\* With a single pixel the standard deviation is 0/0, not a number, and no
\* comparison with a bound made of it holds.
WithinCut(f, k, v) ==
  /\ f.h * f.w > 1
  /\ v >= Mean(f) - k * StdDev(f)
  /\ v <= Mean(f) + k * StdDev(f)

\* C15: after cutExtremum(data, k) every element v satisfies
\* mean - k*std <= v <= mean + k*std with the mean and the sample (n-1) standard
\* deviation of data before the call; elements inside the interval are
\* unchanged and elements outside are set to the nearer bound.
C15_ClippedToPriorBounds ==
  CutReturned
    => \A p \in Pix(direct.data.h, direct.data.w) :
         LET v == direct.data.d[p]
             lo == Mean(direct.data) - direct.k * StdDev(direct.data)
             hi == Mean(direct.data) + direct.k * StdDev(direct.data)
         IN /\ WithinCut(direct.data, direct.k, direct.out.d[p])
            /\ direct.out.d[p] = (IF v > hi THEN hi ELSE IF v < lo THEN lo ELSE v)

\* C16: after cutExtremum every element of the clipped field lies within
\* [mean' - k*std', mean' + k*std'] where mean' and std' are the mean and the
\* standard deviation recomputed on the clipped field.
C16_WithinRecomputedBounds ==
  CutReturned
    => \A p \in Pix(direct.out.h, direct.out.w) :
         WithinCut(direct.out, direct.k, direct.out.d[p])

\* C16, amended: after cutExtremum on data of two pixels or more every element
\* of the clipped field lies within [mean - k*std, mean + k*std] of the mean and
\* standard deviation of the data before the call, and the field is left with
\* its dimensions; the interval recomputed on the clipped field may exclude it.
C16_WithinPriorBounds ==
  (CutReturned /\ direct.data.h * direct.data.w > 1)
    => /\ SameDims(direct.out, direct.data)
       /\ \A p \in Pix(direct.out.h, direct.out.w) :
            WithinCut(direct.data, direct.k, direct.out.d[p])

\* a field was clipped at both ends or at one, and an element at the prior
\* bound lies outside the interval recomputed on the clipped field
C16_Witness ==
  /\ CutReturned
  /\ direct.data.h * direct.data.w > 1
  /\ direct.out # direct.data
  /\ \E p \in Pix(direct.out.h, direct.out.w) :
       /\ WithinCut(direct.data, direct.k, direct.out.d[p])
       /\ ~WithinCut(direct.out, direct.k, direct.out.d[p])

\* the direct restriction and projection of a constant field have returned
TransferReturned == direct.fn = "restriction" /\ direct.pc = "returned"

\* the constant the field of the direct call was filled with
Constant == direct.data.d[<<0, 0>>]

C18_DimensionsRestored ==
  /\ \A i \in DOMAIN stack :
       (i = Len(stack) /\ stack[i].pc = "return")
         => /\ height_ = stack[i].b.h
            /\ width_ = stack[i].b.w
  /\ (pc \in {"reflectance", "cutExtremum", "rescale", "cleanup"})
       => /\ height_ = input.h
          /\ width_ = input.w

\* C19: in the recursive case, before the post-smoothing, every pixel (y, x)
\* within the height and width of the right-hand side holds in result the
\* pre-smoothed guess plus the prolonged correction at (y, x); no pixel is left
\* unwritten, for any grid dimensions.
C19_UpdateCoversGrid ==
  \A fr \in Frames :
    (fr.pc = "postsmooth")
      => /\ SameDims(fr.result, fr.b)
         /\ \A p \in Pix(fr.b.h, fr.b.w) :
              /\ InRange(fr.xcorr, p[1], p[2])
              /\ fr.result.d[p] = fr.x.d[p] + fr.xcorr.d[p]

\* C20: in the recursive case the field that receives the prolonged correction
\* has exactly the height and the width of the right-hand side of the current
\* level, at every level and for every image size, also when a nested level had
\* odd dimensions.
C20_CorrectionDimsMatchRhs ==
  \A fr \in Frames :
    (fr.pc \in {"update", "postsmooth"}) => SameDims(fr.xcorr, fr.b)

\* C21: in the recursive case of mgv the restricted residual handed to the next
\* level has height = (current height) / 2 and width = (current width) / 2 in
\* integer division, and the instance dimensions height_ and width_ seen by the
\* next level are those halved values.
C21_CoarseDimsHalved ==
  \A i \in DOMAIN stack :
    /\ (i = Len(stack) /\ stack[i].pc = "recurse")
         => /\ stack[i].rhat.h = stack[i].b.h \div 2
            /\ stack[i].rhat.w = stack[i].b.w \div 2
            /\ height_ = stack[i].b.h \div 2
            /\ width_ = stack[i].b.w \div 2
    /\ (i > 1 /\ i = Len(stack) /\ stack[i].pc = "enter")
         => /\ stack[i].b = stack[i - 1].rhat
            /\ stack[i].b.h = stack[i - 1].b.h \div 2
            /\ stack[i].b.w = stack[i - 1].b.w \div 2
            /\ height_ = stack[i - 1].b.h \div 2
            /\ width_ = stack[i - 1].b.w \div 2

\* the second level is entered below a 3 x 5 grid with a 1 x 2 residual
C21_Witness ==
  /\ Len(stack) = 2
  /\ Top.pc = "enter"
  /\ stack[1].b.h = 3 /\ stack[1].b.w = 5
  /\ Top.b.h = 1 /\ Top.b.w = 2
  /\ height_ = 1 /\ width_ = 2

\* invocation i of the stack moves from position from to position to
Stepped(i, from, to) == stack[i].pc = from /\ stack'[i].pc = to

\* exactly one more call of routine f is made in this step, and of no other
Called(f) == counts' = Bump(counts, f)

\* C22: every non-terminal mgv invocation performs, once each and in this
\* order: pre-smooth of the guess, matrix-free multiply of the smoothed guess
\* with the residual subtraction, restriction, one recursive mgv call,
\* prolongation, addition of the correction, post-smooth of the new estimate;
\* the post-smooth is the last operation on the result before it is returned.
C22_RecursiveCaseOrder ==
  [][/\ \A i \in DOMAIN stack \cap DOMAIN stack' :
          (stack[i].level # opts.n_grids - 1 /\ stack'[i].pc # stack[i].pc)
            => \/ /\ Stepped(i, "enter", "presmooth")
                  /\ counts'.smooth = counts.smooth
               \/ /\ Stepped(i, "presmooth", "residual")
                  /\ Called("smooth")
                  /\ \E k \in SmoothKinds : stack'[i].x = GaussSeidel(stack[i].x, stack[i].b, k)
               \/ /\ Stepped(i, "residual", "restrict")
                  /\ Called("multiply")
                  /\ stack'[i].x = stack[i].x
               \/ /\ Stepped(i, "restrict", "recurse")
                  /\ Called("restrict")
               \/ /\ Stepped(i, "recurse", "project")
                  /\ Len(stack') = i + 1
                  /\ stack'[i + 1].level = stack[i].level + 1
                  /\ counts' = counts
               \/ /\ Stepped(i, "project", "update")
                  /\ Len(stack) = i
                  /\ Called("project")
               \/ /\ Stepped(i, "update", "postsmooth")
                  /\ counts' = counts
               \/ /\ Stepped(i, "postsmooth", "return")
                  /\ Called("smooth")
                  /\ \E k \in SmoothKinds :
                       stack'[i].result = GaussSeidel(stack[i].result, stack[i].b, k)
     /\ (stack # <<>> /\ Top.pc = "return" /\ Top.level # opts.n_grids - 1)
          => /\ Len(stack') = Len(stack) - 1
             /\ ret' = Top.result
             /\ counts' = counts]_vars

\* the finest of two levels is about to return, having smoothed twice and
\* multiplied, restricted, called and prolonged once
C22_Witness ==
  /\ opts.n_grids = 2
  /\ Len(stack) = 1
  /\ Top.pc = "return"
  /\ Top.level = 0
  /\ levels = <<0, 1>>
  /\ counts.smooth = 2
  /\ counts.multiply = 1
  /\ counts.restrict = 1
  /\ counts.project = 1

\* C23: every recursive mgv call is made with an all-zero initial guess of the
\* coarse dimensions, the restricted residual as rhs, a level exactly one
\* greater than the caller's, and the caller's lambda and type unchanged.
C23_RecursiveCallArguments ==
  \A i \in DOMAIN stack :
    (i > 1 /\ stack[i].pc = "enter")
      => /\ stack[i].x = Filled(stack[i - 1].b.h \div 2, stack[i - 1].b.w \div 2, 0)
         /\ stack[i].b = stack[i - 1].rhat
         /\ stack[i].b = Restriction(stack[i - 1].temp, stack[i - 1].b.h \div 2,
                                     stack[i - 1].b.w \div 2)
         /\ stack[i].level = stack[i - 1].level + 1
         /\ stack[i].lambda = stack[i - 1].lambda
         /\ stack[i].type = stack[i - 1].type
         /\ stack[i].lambda = opts.lambda
         /\ stack[i].type = opts.type

\* a recursive call has just been made on a 2 x 3 grid with a residual that is
\* not zero everywhere
C23_Witness ==
  /\ Len(stack) = 2
  /\ Top.pc = "enter"
  /\ Top.level = 1
  /\ Top.x = Filled(2, 3, 0)
  /\ Top.b.h = 2 /\ Top.b.w = 3
  /\ \E p \in Pix(2, 3) : Top.b.d[p] # 0

\* C24: in the recursive case of mgv the field handed to restriction holds, at
\* every pixel of the current grid, rhs(y, x) minus the matrix-free multiply of
\* the pre-smoothed guess at (y, x).
C24_ResidualHandedToRestriction ==
  \A fr \in Frames :
    (fr.pc = "restrict")
      => /\ SameDims(fr.temp, fr.b)
         /\ DOMAIN fr.temp.d = Pix(fr.b.h, fr.b.w)
         /\ \A p \in Pix(fr.b.h, fr.b.w) :
              fr.temp.d[p] = fr.b.d[p] - MyMultiply(fr.x, fr.lambda).d[p]

\* a residual is ready for restriction where the multiply of the smoothed guess
\* is not zero
C24_Witness ==
  \E fr \in Frames :
    /\ fr.pc = "restrict"
    /\ \E p \in Pix(fr.b.h, fr.b.w) :
         /\ MyMultiply(fr.x, fr.lambda).d[p] # 0
         /\ fr.temp.d[p] # fr.b.d[p]
         /\ fr.temp.d[p] # 0

\* C25: in the terminal case of mgv every interior pixel (not in the first or
\* last row or column) of the returned field keeps the value produced by the
\* direct solver: the boundary loop writes 0 only to boundary pixels, for every
\* grid height and width.
C25_InteriorKeepsSolverValue ==
  \A fr \in Frames :
    (fr.pc \in {"clean", "return"} /\ fr.solved # NoField)
      => \A p \in Interior(fr.result) : fr.result.d[p] = fr.solved.d[p]

\* the routines an invocation at position at has handed its coefficients to
PassedBy(fr) ==
  CASE fr.pc \in {"enter", "build", "presmooth"} -> <<>>
    [] fr.pc \in {"solve", "checkInfo", "boundary", "clean"} -> <<"buildOperator">>
    [] fr.pc = "residual" -> <<"gaussSeidel">>
    [] fr.pc \in {"restrict", "recurse", "project", "update", "postsmooth"}
         -> <<"gaussSeidel", "myMultiply">>
    [] fr.pc = "return"
         -> IF fr.level = opts.n_grids - 1 THEN <<"buildOperator">>
            ELSE <<"gaussSeidel", "myMultiply", "gaussSeidel">>

\* C26: within one mgv invocation the pre-smoother, the matrix-free multiplier
\* and the post-smoother (at the coarsest level, the operator builder) all
\* receive the same coefficient object with the same lambda and type; each
\* invocation creates its own coefficient object, which is not shared with
\* another level and does not outlive the invocation.
C26_CoefficientsPerInvocation ==
  /\ \A fr \in Frames :
       /\ (fr.pc # "enter") => (fr.rho \in live /\ fr.rho = Obj("rho", fr.level))
       /\ Len(fr.passed) = Len(PassedBy(fr))
       /\ \A j \in DOMAIN fr.passed :
            /\ fr.passed[j].to = PassedBy(fr)[j]
            /\ fr.passed[j].rho = fr.rho
            /\ fr.passed[j].lambda = fr.lambda
            /\ fr.passed[j].type = fr.type
            /\ fr.passed[j].lambda = opts.lambda
            /\ fr.passed[j].type = opts.type
  /\ \A i, j \in DOMAIN stack :
       (i # j /\ stack[i].pc # "enter" /\ stack[j].pc # "enter") => stack[i].rho # stack[j].rho
  /\ \A o \in live :
       (o[1] = "rho") => \E fr \in Frames : fr.pc # "enter" /\ fr.rho = o
  /\ \A o \in DOMAIN released : (o[1] = "rho") => released[o] = 1

\* the finest of two levels is about to return: its three calls had its own
\* coefficients and those of the coarser level are already released
C26_Witness ==
  /\ opts.n_grids = 2
  /\ Len(stack) = 1
  /\ Top.pc = "return"
  /\ Len(Top.passed) = 3
  /\ Top.rho = Obj("rho", 0)
  /\ Obj("rho", 0) \in live
  /\ Obj("rho", 1) \notin live
  /\ Obj("rho", 1) \in DOMAIN released

\* the image processInput copied into image_grid
OriginalImage ==
  Field(input.h, input.w, [p \in Pix(input.h, input.w) |->
                             ImageValue(input.pattern, p[1], p[2])])

\* C27: mgv never writes to the rhs it is given, neither in the terminal case,
\* where the solver works on a copy, nor in the residual computation, so the
\* image that processInput divides by the light after the V-cycle is pixel for
\* pixel the original input image.
C27_RhsNeverWritten ==
  /\ \A i \in DOMAIN stack :
       /\ (i = 1) => stack[i].b = OriginalImage
       /\ (i > 1) => stack[i].b = stack[i - 1].rhat
  /\ (pc \in {"reflectance", "cutExtremum", "rescale", "cleanup"})
       => loc.image_grid = OriginalImage

\* a V-cycle of two levels with a solve and a residual has returned a light that
\* differs from the image, and the image is as it was
C27_Witness ==
  /\ pc = "reflectance"
  /\ opts.n_grids = 2
  /\ counts.solve = 1
  /\ counts.multiply = 1
  /\ input.h = 4 /\ input.w = 4
  /\ loc.light # loc.image_grid
  /\ loc.image_grid = OriginalImage

\* C28: in the terminal case mgv neither reads nor writes the initial guess:
\* the field it returns is made of the rhs and the outcome of the solve alone,
\* whatever the guess, and the guess is left as it was given (with n_grids = 1
\* the light handed to processInput does not depend on the guess).
C28_TerminalIgnoresGuess ==
  /\ \A fr \in Frames :
       (fr.level = opts.n_grids - 1)
         => /\ (fr.level = 0) => fr.x = direct.data
            /\ (fr.pc \in {"checkInfo", "boundary"})
                 => \E k \in 0 .. MaxSolve : fr.result = Solution(fr.b, k)
            /\ (fr.pc \in {"clean", "return"})
                 => \E k \in 0 .. MaxSolve :
                      fr.result = ZeroBoundary(Solution(fr.b, k), fr.b.h, fr.b.w)
  /\ (pc = "reflectance" /\ opts.n_grids = 1)
       => /\ loc.guess = direct.data
          /\ \E k \in 0 .. MaxSolve :
               loc.light = ZeroBoundary(Solution(OriginalImage, k), input.h, input.w)

\* a single-level call on a guess that is not zero has returned a light that is
\* not zero everywhere, and the guess is as it was
C28_Witness ==
  /\ pc = "reflectance"
  /\ opts.n_grids = 1
  /\ direct.fn = "mgv"
  /\ direct.k = MaxGuess
  /\ input.h = 4 /\ input.w = 4 /\ input.pattern = 1
  /\ loc.guess = Filled(4, 4, MaxGuess)
  /\ \E p \in Pix(4, 4) : loc.light.d[p] # 0

\* n halved l times, in integer division
RECURSIVE HalvedTimes(_, _)
HalvedTimes(n, l) == IF l <= 0 THEN n ELSE HalvedTimes(n \div 2, l - 1)

\* the grid sizes of the call in progress are those of its input and options
GridSizesFromInput ==
  /\ (pc \in {"callMgv", "mgv"}) => n_grids_ = opts.n_grids
  /\ (pc = "callMgv")
       => /\ height_ = input.h
          /\ width_ = input.w
          /\ loc.guess = Filled(input.h, input.w, 0)
          /\ loc.image_grid = OriginalImage
          /\ loc.t_output = Filled(input.h, input.w, 0)
  /\ (pc = "mgv")
       => \A i \in DOMAIN stack :
            /\ stack[i].level = i - 1
            /\ stack[i].b.h = HalvedTimes(input.h, i - 1)
            /\ stack[i].b.w = HalvedTimes(input.w, i - 1)
            /\ (stack[i].pc # "enter")
                 => /\ stack[i].result.h = HalvedTimes(input.h, i - 1)
                    /\ stack[i].result.w = HalvedTimes(input.w, i - 1)
            /\ (i = Len(stack) /\ stack[i].pc = "enter")
                 => /\ height_ = HalvedTimes(input.h, i - 1)
                    /\ width_ = HalvedTimes(input.w, i - 1)

\* C29: a processInput call depends only on its input and the current options,
\* not on earlier calls on the same instance: n_grids_, height_ and width_ are
\* overwritten at the start of each call, so whatever an earlier call (also one
\* on an image with odd dimensions) left in them does not influence the grid
\* sizes the call uses.
C29_IndependentOfEarlierCalls ==
  /\ []GridSizesFromInput
  /\ [][(pc = "processInput")
          => /\ n_grids_' = opts.n_grids
             /\ height_' = input.h
             /\ width_' = input.w
             /\ pc' = "callMgv"]_vars

\* a call on a 4 x 6 image with one grid starts on an instance whose fields
\* hold what an earlier call with two grids left: 2 and 4
C29_Witness ==
  /\ pc = "processInput"
  /\ input.h = 4 /\ input.w = 6
  /\ opts.n_grids = 1
  /\ n_grids_ = 2
  /\ height_ = 2
  /\ width_ = 4

\* C30: mgv reaches the coarsest-level (direct solve) case after finitely many
\* recursive calls for every integer value of the option n_grids, values below
\* 1 included.  The level starts at 0, grows by exactly one per recursive call
\* and is tested for equality with n_grids_ - 1, so the case is reached from an
\* invocation if and only if its level is at most n_grids_ - 1.
C30_CoarsestLevelReached ==
  (pc = "mgv") => \A fr \in Frames : fr.level <= n_grids_ - 1

====
